---- MODULE Spec2Model ----
(***************************************************************************)
(* A model of utils/http.go: the HTTP wrapper around net/http's Server     *)
(* (ListenAndServe, Shutdown, ShutdownWithTimeout, the per-request context *)
(* wrapper) and the certificate resolver EnsureCert.                       *)
(***************************************************************************)
EXTENDS Naturals, Sequences, FiniteSets, TLC

(***************************************************************************)
(* Bounds of the model.                                                    *)
(***************************************************************************)
\* EnsureCert calls made by the caller in one behaviour.
MaxEnsureCalls == 2
\* Requests accepted by the server in one behaviour.
MaxReqs == 2
\* ListenAndServe calls made on the one instance in one behaviour.
MaxServeCalls == 2

VARIABLES
    cfg,        \* the HTTPConfig value the caller hands to NewHTTP
    h,          \* the HTTPConfig embedded in the HTTP instance
    disk,       \* the filesystem: path -> file
    ecCalls,    \* number of EnsureCert calls made so far
    ec,         \* what the last EnsureCert call did and returned
    scopeDone,  \* whether the context passed to ListenAndServe is cancelled
    srv,        \* h.server: net/http's shutdown flag and its listener
    las,        \* the caller's position in ListenAndServe and what it returned
    watching,   \* scope watchers (the goroutine of lines 74-77) still waiting
    sd,         \* the caller's position in Shutdown / ShutdownWithTimeout
    req         \* the requests: handler position, contexts, watcher

certVars == <<cfg, h, disk, ecCalls, ec>>
serverVars == <<scopeDone, srv, las, watching, sd, req>>
vars == <<cfg, h, disk, ecCalls, ec, scopeDone, srv, las, watching, sd, req>>

(***************************************************************************)
(* The filesystem.  A file is absent, or holds a PEM certificate or a PEM  *)
(* private key of key pair `id`, or bytes that parse as neither.           *)
(***************************************************************************)
UserCrt == "user.crt"
UserKey == "user.key"
DefaultPath == "def"
Paths == {UserCrt, UserKey, DefaultPath \o ".crt", DefaultPath \o ".key"}

Absent == [kind |-> "absent", id |-> 0, mode |-> "none"]
File(kind, id, mode) == [kind |-> kind, id |-> id, mode |-> mode]

\* Key pairs that exist before the program runs; generated pairs get later ids.
PreIds == {1, 2}
Modes == {"0600", "0644"}

Exists(d, path) == path \in DOMAIN d /\ d[path].kind # "absent"

\* tls.LoadX509KeyPair: reads the certificate file, then the key file, then
\* parses both and checks that the key matches the certificate.
LoadX509KeyPair(d, certFile, keyFile) ==
    IF ~Exists(d, certFile) THEN "ENOENT"
    ELSE IF ~Exists(d, keyFile) THEN "ENOENT"
    ELSE IF d[certFile].kind # "cert" THEN "parse"
    ELSE IF d[keyFile].kind # "key" THEN "parse"
    ELSE IF d[certFile].id # d[keyFile].id THEN "mismatch"
    ELSE "nil"

\* The files tls.LoadX509KeyPair opens: the key file only once the certificate
\* file was read.
LoadReads(d, certFile, keyFile) ==
    IF Exists(d, certFile) THEN {certFile, keyFile} ELSE {certFile}

\* A variant that takes every load error for a missing file.
IsNotExistAlways(err) == TRUE

\* os.IsNotExist
IsNotExist(err) == err = "ENOENT"

\* ioutil.WriteFile(path, data, perm): opens with O_WRONLY|O_CREATE|O_TRUNC, so
\* perm is applied only when the file is created.  `how` is what the operating
\* system lets happen: "ok", "openfail" (nothing changed) or "partial" (the file
\* was created or truncated and the write failed).
WriteFile(d, path, kind, id, perm, how) ==
    LET mode == IF Exists(d, path) THEN d[path].mode ELSE perm
    IN  IF how = "openfail" THEN d
        ELSE IF how = "partial" THEN [d EXCEPT ![path] = File("corrupt", 0, mode)]
        ELSE [d EXCEPT ![path] = File(kind, id, mode)]

WriteOutcomes == {"ok", "openfail", "partial"}

\* What one EnsureCert call leaves behind.
Outcome(hh, d, err, reads, writes, branch) ==
    [h |-> hh, disk |-> d, err |-> err, reads |-> reads, writes |-> writes,
     branch |-> branch]

\* A variant that ignores the Insecure flag.
SkipTLSNever(hh) == FALSE

\* EnsureCert, lines 108-110.
SkipTLS(hh) == hh.Insecure

\* A variant that repairs a missing user-named pair by writing a new one.
LoadExplicitRepairs(hh, d) ==
    LET err == LoadX509KeyPair(d, hh.CertFile, hh.KeyFile)
        d1 == WriteFile(d, hh.KeyFile, "key", 9, "0600", "ok")
        d2 == WriteFile(d1, hh.CertFile, "cert", 9, "0600", "ok")
    IN  IF IsNotExist(err) /\ hh.KeyFile \in Paths
        THEN Outcome(hh, d2, "nil", LoadReads(d, hh.CertFile, hh.KeyFile),
                     <<[path |-> hh.KeyFile, how |-> "ok"],
                       [path |-> hh.CertFile, how |-> "ok"]>>, "explicit")
        ELSE Outcome(hh, d, err, LoadReads(d, hh.CertFile, hh.KeyFile), <<>>,
                     "explicit")

\* EnsureCert, lines 112-115: the files the user named.
LoadExplicit(hh, d) ==
    Outcome(hh, d, LoadX509KeyPair(d, hh.CertFile, hh.KeyFile),
            LoadReads(d, hh.CertFile, hh.KeyFile), <<>>, "explicit")

\* A variant that writes the key bytes to CertFile and the certificate bytes to
\* KeyFile.
GenerateSwapped(hh, d, id, genOk, keyHow, certHow) ==
    IF ~genOk THEN Outcome(hh, d, "generate", {}, <<>>, "generate")
    ELSE
      LET d1 == WriteFile(d, hh.CertFile, "key", id, "0600", keyHow)
          d2 == WriteFile(d1, hh.KeyFile, "cert", id, "0600", certHow)
      IN  IF keyHow # "ok"
          THEN Outcome(hh, d1, "writeKey", {},
                       <<[path |-> hh.CertFile, how |-> keyHow]>>, "generate")
          ELSE IF certHow # "ok"
          THEN Outcome(hh, d2, "writeCert", {},
                       <<[path |-> hh.CertFile, how |-> keyHow],
                         [path |-> hh.KeyFile, how |-> certHow]>>, "generate")
          ELSE Outcome(hh, d2, "nil", {},
                       <<[path |-> hh.CertFile, how |-> keyHow],
                         [path |-> hh.KeyFile, how |-> certHow]>>, "generate")

\* EnsureCert, lines 131-144: generate a pair and persist it, key first.
Generate(hh, d, id, genOk, keyHow, certHow) ==
    IF ~genOk THEN Outcome(hh, d, "generate", {}, <<>>, "generate")
    ELSE
      LET d1 == WriteFile(d, hh.KeyFile, "key", id, "0600", keyHow)
          d2 == WriteFile(d1, hh.CertFile, "cert", id, "0600", certHow)
      IN  IF keyHow # "ok"
          THEN Outcome(hh, d1, "writeKey", {},
                       <<[path |-> hh.KeyFile, how |-> keyHow]>>, "generate")
          ELSE IF certHow # "ok"
          THEN Outcome(hh, d2, "writeCert", {},
                       <<[path |-> hh.KeyFile, how |-> keyHow],
                         [path |-> hh.CertFile, how |-> certHow]>>, "generate")
          ELSE Outcome(hh, d2, "nil", {},
                       <<[path |-> hh.KeyFile, how |-> keyHow],
                         [path |-> hh.CertFile, how |-> certHow]>>, "generate")

\* EnsureCert, lines 117-144: fall back on the pair at defaultPath.
LoadDefault(hh, d, defaultPath, id, genOk, keyHow, certHow) ==
    LET h1 == [hh EXCEPT !.CertFile = defaultPath \o ".crt",
                         !.KeyFile = defaultPath \o ".key"]
        err == LoadX509KeyPair(d, h1.CertFile, h1.KeyFile)
        reads == LoadReads(d, h1.CertFile, h1.KeyFile)
    IN  IF err = "nil" THEN Outcome(h1, d, "nil", reads, <<>>, "reuse")
        ELSE IF ~IsNotExist(err) THEN Outcome(h1, d, err, reads, <<>>, "reject")
        ELSE LET g == Generate(h1, d, id, genOk, keyHow, certHow)
             IN  [g EXCEPT !.reads = reads]

\* EnsureCert as a function of the instance, the disk and what the environment
\* lets the generator and the two writes do.
EnsureCertRun(hh, d, defaultPath, id, genOk, keyHow, certHow) ==
    IF SkipTLS(hh) THEN Outcome(hh, d, "nil", {}, <<>>, "insecure")
    ELSE IF hh.CertFile # "" THEN LoadExplicit(hh, d)
    ELSE LoadDefault(hh, d, defaultPath, id, genOk, keyHow, certHow)

\* The key pair a generation in the call after `n` earlier calls yields: never
\* one that exists already.
FreshId(n) == 3 + n

\* func (h *HTTP) EnsureCert(defaultPath string) (err error)
EnsureCert(defaultPath) ==
    /\ ecCalls < MaxEnsureCalls
    /\ \E genOk \in BOOLEAN, keyHow \in WriteOutcomes, certHow \in WriteOutcomes :
         LET o == EnsureCertRun(h, disk, defaultPath, FreshId(ecCalls),
                                genOk, keyHow, certHow)
         IN  /\ h' = o.h
             /\ disk' = o.disk
             /\ ec' = [err |-> o.err, reads |-> o.reads, writes |-> o.writes,
                       branch |-> o.branch, before |-> disk, hBefore |-> h]
    /\ ecCalls' = ecCalls + 1
    /\ UNCHANGED <<cfg, serverVars>>

\* func NewHTTP(config HTTPConfig) *HTTP: a fresh instance of the same
\* configuration; the struct is copied by value.
NewHTTP ==
    /\ h # cfg
    /\ h' = cfg
    /\ UNCHANGED <<cfg, disk, ecCalls, ec, serverVars>>

(***************************************************************************)
(* The server: net/http's Server as http.go uses it.                       *)
(***************************************************************************)
Reqs == 1..MaxReqs

\* A request the server has not accepted yet.
NoReq == [pc |-> "none", native |-> FALSE, derived |-> FALSE, watcher |-> "none"]

\* http.Server{Addr: config.Listen}, line 44: not shutting down, no listener.
NewServer == [inShutdown |-> FALSE, listening |-> FALSE]

NotCalled == [pc |-> "out", calls |-> 0, err |-> "none", ret |-> "none"]
NoShutdown == [pc |-> "idle", timed |-> FALSE, ctx |-> "live", timer |-> "none",
               ret |-> "none"]

InitServerVars ==
    /\ scopeDone = FALSE
    /\ srv = NewServer
    /\ las = NotCalled
    /\ watching = 0
    /\ sd = NoShutdown
    /\ req = [r \in Reqs |-> NoReq]


NoCall == [err |-> "none", reads |-> {}, writes |-> <<>>, branch |-> "none",
           before |-> [p \in Paths |-> Absent], hBefore |-> [Listen |-> "", KeyFile |-> "",
           CertFile |-> "", Hostname |-> "", Insecure |-> TRUE]]

CertFiles == {Absent} \cup {File(k, IF k = "cert" THEN 1 ELSE 0, m) :
                              k \in {"cert", "corrupt"}, m \in Modes}
KeyFiles == {Absent} \cup {File("corrupt", 0, m) : m \in Modes}
                     \cup {File("key", i, m) : i \in PreIds, m \in Modes}
UserCertFiles == {f \in CertFiles : f.mode # "0644"}
UserKeyFiles == {f \in KeyFiles : f.mode # "0644"}

Configs == {[Listen |-> ":8081", KeyFile |-> k, CertFile |-> c,
             Hostname |-> "example.com", Insecure |-> i] :
              k \in {"", UserKey}, c \in {"", UserCrt}, i \in BOOLEAN}

InitCert ==
    /\ cfg \in Configs
    /\ h = cfg
    /\ \E uc \in UserCertFiles, uk \in UserKeyFiles, dc \in CertFiles, dk \in KeyFiles :
         disk = [p \in Paths |->
                   IF p = UserCrt THEN uc
                   ELSE IF p = UserKey THEN uk
                   ELSE IF p = DefaultPath \o ".crt" THEN dc ELSE dk]
    /\ ecCalls = 0
    /\ ec = NoCall
    /\ InitServerVars

NextCert ==
    \/ EnsureCert(DefaultPath)
    \/ NewHTTP

SpecCert == InitCert /\ [][NextCert]_vars

\* A variant that closes the listener and leaves the server usable.
CloseListenerOnly(s) == [s EXCEPT !.listening = FALSE]

\* h.server.Close(), line 76: the server is marked shut down and its listener
\* is closed at once; handlers that are running are not waited for.
Close(s) == [s EXCEPT !.inShutdown = TRUE, !.listening = FALSE]

\* The requests whose handler is running: the connections
\* http.Server.Shutdown waits for.
InFlight == {r \in Reqs : req[r].pc = "serving"}
Quiescent == InFlight = {}

\* A variant where the derived context is no child of the scope.
ChildrenOfNothing == {}

\* context.WithCancel(baseCtx), line 51: the requests whose derived context is a
\* child of the scope, cancelled with it.
ChildrenOfScope == {r \in Reqs : req[r].pc = "serving"}

\* The owner of the scope cancels it; the cancellation reaches every derived
\* context that is its child.
CancelScope ==
    /\ ~scopeDone
    /\ scopeDone' = TRUE
    /\ req' = [r \in Reqs |->
                 IF r \in ChildrenOfScope THEN [req[r] EXCEPT !.derived = TRUE]
                 ELSE req[r]]
    /\ UNCHANGED <<certVars, srv, las, watching, sd>>

\* ListenAndServe, lines 70-77: the handler is bound to ctx and the scope
\* watcher is spawned.
ListenAndServeCall ==
    /\ las.pc = "out" /\ las.calls < MaxServeCalls
    /\ las' = [pc |-> "started", calls |-> las.calls + 1, err |-> "none",
               ret |-> "none"]
    /\ watching' = watching + 1
    /\ UNCHANGED <<certVars, scopeDone, srv, sd, req>>

\* A variant of the scope watcher that ends without closing the server.
ScopeWatcherForgetsClose ==
    /\ watching > 0
    /\ scopeDone
    /\ watching' = watching - 1
    /\ UNCHANGED <<certVars, scopeDone, srv, las, sd, req>>

\* The goroutine of lines 74-77: <-ctx.Done(); h.server.Close().
ScopeWatcher ==
    /\ watching > 0
    /\ scopeDone
    /\ srv' = Close(srv)
    /\ watching' = watching - 1
    /\ UNCHANGED <<certVars, scopeDone, las, sd, req>>

\* A variant that wraps every error, the expected stop included.
ServeResultWrapsAll(err) == err

\* Lines 87-90: http.ErrServerClosed is the expected stop, anything else an
\* error.
ServeResult(err) == IF err = "ErrServerClosed" THEN "nil" ELSE err

\* A variant that listens in plaintext whatever Insecure says.
ListenErrorPlainOnly(addrFree) ==
    IF srv.inShutdown THEN "ErrServerClosed"
    ELSE IF ~addrFree THEN "bind"
    ELSE "none"

\* What h.server.ListenAndServe() / ListenAndServeTLS(CertFile, KeyFile) of
\* lines 80-86 does before it accepts: it refuses once the server was shut down,
\* binds the address, in TLS mode loads the pair, and starts to accept.
ListenError(addrFree) ==
    IF srv.inShutdown THEN "ErrServerClosed"
    ELSE IF ~addrFree THEN "bind"
    ELSE IF ~h.Insecure /\ LoadX509KeyPair(disk, h.CertFile, h.KeyFile) # "nil"
    THEN "cert"
    ELSE "none"

\* ListenAndServe, lines 79-90, up to the accept loop: either the server starts
\* to accept, or the call returns.  addrFree: no other process holds the Listen
\* address at that moment.
ListenAndServeListen(addrFree) ==
    /\ las.pc = "started"
    /\ IF ListenError(addrFree) = "none"
       THEN /\ srv' = [srv EXCEPT !.listening = TRUE]
            /\ las' = [las EXCEPT !.pc = "serving"]
       ELSE /\ srv' = srv
            /\ las' = [las EXCEPT !.pc = "out", !.err = ListenError(addrFree),
                                  !.ret = ServeResult(ListenError(addrFree))]
    /\ UNCHANGED <<certVars, scopeDone, watching, sd, req>>

\* ListenAndServe, lines 82-90: the accept loop ends because the server was
\* closed or shut down.
ListenAndServeReturn ==
    /\ las.pc = "serving"
    /\ srv.inShutdown
    /\ las' = [las EXCEPT !.pc = "out", !.err = "ErrServerClosed",
                          !.ret = ServeResult("ErrServerClosed")]
    /\ UNCHANGED <<certVars, scopeDone, srv, watching, sd, req>>

\* ListenAndServe, lines 82-90: the accept loop ends on an accept error while
\* the server is not shut down; the listener is closed on the way out.
AcceptFails ==
    /\ las.pc = "serving"
    /\ ~srv.inShutdown
    /\ srv' = [srv EXCEPT !.listening = FALSE]
    /\ las' = [las EXCEPT !.pc = "out", !.err = "accept",
                          !.ret = ServeResult("accept")]
    /\ UNCHANGED <<certVars, scopeDone, watching, sd, req>>

\* A variant that swallows the error of h.server.Shutdown.
ShutdownReturnSwallows(err) == "nil"

\* Shutdown and ShutdownWithTimeout return what h.server.Shutdown returns,
\* lines 95 and 103.
ShutdownReturn(err) == err

\* Shutdown(ctx), lines 94-96, or ShutdownWithTimeout(ctx, duration), lines
\* 99-103, called from another goroutine: the deadline is armed (timed), and
\* h.server.Shutdown marks the server shut down and closes its listener.
\* parentGone: the caller's context is cancelled already.
ShutdownCall(timed, parentGone) ==
    /\ sd.pc = "idle"
    /\ sd' = [pc |-> "check", timed |-> timed,
              ctx |-> IF parentGone THEN "Canceled" ELSE "live",
              timer |-> IF timed THEN "armed" ELSE "none", ret |-> "none"]
    /\ srv' = Close(srv)
    /\ UNCHANGED <<certVars, scopeDone, las, watching, req>>

\* What the Shutdown call leaves when it returns err: line 101's deferred cancel
\* releases the deadline.
Returned(s, err) ==
    [s EXCEPT !.pc = "returned", !.ret = ShutdownReturn(err),
              !.timer = IF s.timed THEN "released" ELSE "none",
              !.ctx = IF s.timed /\ s.ctx = "live" THEN "Canceled" ELSE s.ctx]

\* h.server.Shutdown's loop: it returns nil once no connection is busy.
ShutdownCheck ==
    /\ sd.pc = "check"
    /\ sd' = IF Quiescent THEN Returned(sd, "nil") ELSE [sd EXCEPT !.pc = "select"]
    /\ UNCHANGED <<certVars, scopeDone, srv, las, watching, req>>

\* h.server.Shutdown's loop: the context is done, it returns ctx.Err().
ShutdownGivesUp ==
    /\ sd.pc = "select"
    /\ sd.ctx # "live"
    /\ sd' = Returned(sd, sd.ctx)
    /\ UNCHANGED <<certVars, scopeDone, srv, las, watching, req>>

\* h.server.Shutdown's loop: the poll ticker fires, it looks again.
ShutdownTick ==
    /\ sd.pc = "select"
    /\ sd' = [sd EXCEPT !.pc = "check"]
    /\ UNCHANGED <<certVars, scopeDone, srv, las, watching, req>>

\* context.WithTimeout(ctx, duration), line 100: the duration elapses.
DeadlineElapses ==
    /\ sd.timer = "armed" /\ sd.ctx = "live"
    /\ sd' = [sd EXCEPT !.ctx = "DeadlineExceeded"]
    /\ UNCHANGED <<certVars, scopeDone, srv, las, watching, req>>

\* The context the caller passed to Shutdown / ShutdownWithTimeout is cancelled
\* during the call.
ParentCancelled ==
    /\ sd.pc \in {"check", "select"} /\ sd.ctx = "live"
    /\ sd' = [sd EXCEPT !.ctx = "Canceled"]
    /\ UNCHANGED <<certVars, scopeDone, srv, las, watching, req>>

\* context.WithCancel(parent): cancelled from the start when the parent is.
WithCancel(parentDone) == parentDone

\* The accept loop takes a connection and its request, and the server calls the
\* wrapper, lines 50-60: the derived context, the deferred cancel, the watcher,
\* and the call of the handler with the derived context.  Requests are numbered
\* in the order they arrive.
Accept(r) ==
    /\ las.pc = "serving" /\ srv.listening
    /\ req[r].pc = "none"
    /\ \A q \in Reqs : q < r => req[q].pc # "none"
    /\ req' = [req EXCEPT ![r] = [pc |-> "serving", native |-> FALSE,
                                  derived |-> WithCancel(scopeDone),
                                  watcher |-> "waiting"]]
    /\ UNCHANGED <<certVars, scopeDone, srv, las, watching, sd>>

\* A variant of the request watcher that cancels without waiting.
RequestWatcherEager(r) ==
    /\ req[r].watcher = "waiting"
    /\ req' = [req EXCEPT ![r] = [@ EXCEPT !.derived = TRUE, !.watcher = "exited"]]
    /\ UNCHANGED <<certVars, scopeDone, srv, las, watching, sd>>

\* A variant of the request watcher that cancels the scope instead of the
\* derived context.
RequestWatcherCancelsScope(r) ==
    /\ req[r].watcher = "waiting"
    /\ req[r].native \/ req[r].derived
    /\ scopeDone' = (scopeDone \/ req[r].native)
    /\ req' = [q \in Reqs |->
                 IF q = r THEN [req[q] EXCEPT !.derived = TRUE, !.watcher = "exited"]
                 ELSE IF req[r].native /\ req[q].pc = "serving"
                 THEN [req[q] EXCEPT !.derived = TRUE]
                 ELSE req[q]]
    /\ UNCHANGED <<certVars, srv, las, watching, sd>>

\* The goroutine of lines 53-59: when the request's own context is done it
\* cancels the derived context; when the derived context is done it just ends.
RequestWatcher(r) ==
    /\ req[r].watcher = "waiting"
    /\ req[r].native \/ req[r].derived
    /\ req' = [req EXCEPT ![r] = [@ EXCEPT !.derived = TRUE, !.watcher = "exited"]]
    /\ UNCHANGED <<certVars, scopeDone, srv, las, watching, sd>>

\* A variant without line 52's deferred cancel.
HandlerReturnNoCancel(r) ==
    /\ req[r].pc = "serving"
    /\ req' = [req EXCEPT ![r] = [@ EXCEPT !.pc = "returned"]]
    /\ UNCHANGED <<certVars, scopeDone, srv, las, watching, sd>>

\* Line 60 returns (or panics) and line 52's deferred cancel runs.
HandlerReturn(r) ==
    /\ req[r].pc = "serving"
    /\ req' = [req EXCEPT ![r] = [@ EXCEPT !.pc = "returned", !.derived = TRUE]]
    /\ UNCHANGED <<certVars, scopeDone, srv, las, watching, sd>>

\* r.Context() is done: the client went away, or the connection was closed.
NativeCancel(r) ==
    /\ req[r].pc = "serving"
    /\ ~req[r].native
    /\ req' = [req EXCEPT ![r] = [@ EXCEPT !.native = TRUE]]
    /\ UNCHANGED <<certVars, scopeDone, srv, las, watching, sd>>

\* The configurations and disks the server is started with: plaintext; TLS with
\* nothing resolved; TLS with the user's pair, present or with its key missing.
PlainConfig == [Listen |-> ":8081", KeyFile |-> "", CertFile |-> "",
                Hostname |-> "example.com", Insecure |-> TRUE]
EmptyDisk == [p \in Paths |-> Absent]
UserDisk(withKey) ==
    [EmptyDisk EXCEPT ![UserCrt] = File("cert", 1, "0600"),
                      ![UserKey] = IF withKey THEN File("key", 1, "0600") ELSE Absent]
ServerStarts ==
    {<<PlainConfig, EmptyDisk>>,
     <<[PlainConfig EXCEPT !.Insecure = FALSE], EmptyDisk>>,
     <<[PlainConfig EXCEPT !.Insecure = FALSE, !.CertFile = UserCrt,
                           !.KeyFile = UserKey], UserDisk(TRUE)>>,
     <<[PlainConfig EXCEPT !.Insecure = FALSE, !.CertFile = UserCrt,
                           !.KeyFile = UserKey], UserDisk(FALSE)>>}

InitServer ==
    /\ \E st \in ServerStarts : cfg = st[1] /\ h = st[1] /\ disk = st[2]
    /\ ecCalls = 0
    /\ ec = NoCall
    /\ InitServerVars

\* The server with a caller that shuts down gracefully, without a deadline.
NextServing ==
    \/ CancelScope
    \/ ListenAndServeCall
    \/ ScopeWatcher
    \/ \E addrFree \in BOOLEAN : ListenAndServeListen(addrFree)
    \/ ListenAndServeReturn
    \/ AcceptFails
    \/ ShutdownCall(FALSE, FALSE)
    \/ ShutdownCheck
    \/ ShutdownTick
    \/ \E r \in Reqs : Accept(r)
    \/ \E r \in Reqs : RequestWatcher(r)
    \/ \E r \in Reqs : HandlerReturn(r)
    \/ \E r \in Reqs : NativeCancel(r)

\* The server with every way of shutting it down.
NextServer ==
    \/ NextServing
    \/ \E timed \in BOOLEAN, parentGone \in BOOLEAN :
         (timed \/ parentGone) /\ ShutdownCall(timed, parentGone)
    \/ ShutdownGivesUp
    \/ DeadlineElapses
    \/ ParentCancelled

SpecServer == InitServer /\ [][NextServer]_vars

SpecServing == InitServer /\ [][NextServing]_vars

\* The instance from its construction on, with every operation of the caller
\* and no client connecting.
NextLifecycle ==
    \/ EnsureCert(DefaultPath)
    \/ CancelScope
    \/ ListenAndServeCall
    \/ ScopeWatcher
    \/ \E addrFree \in BOOLEAN : ListenAndServeListen(addrFree)
    \/ ListenAndServeReturn
    \/ AcceptFails
    \/ \E timed \in BOOLEAN, parentGone \in BOOLEAN : ShutdownCall(timed, parentGone)
    \/ ShutdownCheck
    \/ DeadlineElapses
    \/ ParentCancelled

SpecLifecycle == InitServer /\ [][NextLifecycle]_vars

\* The goroutines the Go scheduler runs: a step that is ready is taken.  The
\* owner of the scope, the clients, the handlers and the caller are not bound to
\* act.
FairServing ==
    /\ WF_vars(ScopeWatcher)
    /\ WF_vars(\E addrFree \in BOOLEAN : ListenAndServeListen(addrFree))
    /\ WF_vars(ListenAndServeReturn)
    /\ WF_vars(ShutdownCheck)
    /\ WF_vars(ShutdownTick)
    /\ \A r \in Reqs : WF_vars(RequestWatcher(r))

FairSpecServing == SpecServing /\ FairServing

(***************************************************************************)
(* Claims about the server.                                                *)
(***************************************************************************)

\* C1: once the scope passed to ListenAndServe is cancelled, before or during
\* the call, the server is eventually closed: it is shut down, its listener
\* accepts nothing, and the ListenAndServe call has returned.
C1_ScopeClosesServer ==
    (scopeDone /\ las.calls > 0)
        ~> (srv.inShutdown /\ ~srv.listening /\ las.pc = "out")

\* C1 witness: ListenAndServe has served requests and returned after the scope
\* was cancelled, with no Shutdown call.
C1_Witness ==
    /\ scopeDone /\ sd.pc = "idle"
    /\ las.pc = "out" /\ las.err = "ErrServerClosed"
    /\ req[1].pc # "none"
    /\ watching = 0

\* C2: the derived context of every request whose handler is running when the
\* scope is cancelled becomes cancelled; the cancellation changes nothing about
\* a request whose handler had returned.
C2_ScopeReachesRequests ==
    /\ \A r \in Reqs : (scopeDone /\ req[r].pc = "serving") ~> req[r].derived
    /\ [][(scopeDone' /\ ~scopeDone) =>
            \A r \in Reqs : req[r].pc = "returned" => req'[r] = req[r]]_vars

\* C2 witness: the scope is cancelled, one request is still served with its
\* derived context cancelled though its client is there, another had returned.
C2_Witness ==
    /\ scopeDone
    /\ req[2].pc = "serving" /\ req[2].derived /\ ~req[2].native
    /\ req[2].watcher = "waiting"
    /\ req[1].pc = "returned"

\* C3: when a request's own context is cancelled, and when its watcher acts on
\* that, the scope and the derived context of every other request stay as they
\* are.
C3_RequestCancelIsLocal ==
    [][\A r \in Reqs :
         (\/ (req'[r].native /\ ~req[r].native)
          \/ (req[r].native /\ req[r].watcher = "waiting"
                /\ req'[r].watcher = "exited"))
         => /\ scopeDone' = scopeDone
            /\ \A q \in Reqs \ {r} : req'[q].derived = req[q].derived]_vars

\* C3 witness: two requests are served, the client of one went away and its
\* derived context is cancelled; the other's is not, nor is the scope.
C3_Witness ==
    /\ ~scopeDone
    /\ req[1].pc = "serving" /\ req[1].native /\ req[1].derived
    /\ req[1].watcher = "exited"
    /\ req[2].pc = "serving" /\ ~req[2].derived

\* C4: ListenAndServe returns nil when it ended because the server was closed
\* (by the scope's watcher) or shut down, which needs one of the two to have
\* happened, and a non-nil error when it ended on a bind failure.
C4_ReturnValue ==
    (las.pc = "out" /\ las.calls > 0)
    => /\ (las.err = "ErrServerClosed") => las.ret = "nil"
       /\ (las.err = "bind") => las.ret # "nil"
       /\ (las.ret = "nil") => (srv.inShutdown /\ (scopeDone \/ sd.pc # "idle"))

\* C4 witness: a call that returned nil after the scope was cancelled, following
\* one that had ended otherwise.
C4_Witness ==
    /\ las.pc = "out" /\ las.calls = 2
    /\ las.ret = "nil" /\ scopeDone /\ sd.pc = "idle"

\* The server was stopped: ListenAndServe has returned once, or the server was
\* closed or shut down.
Stopped ==
    \/ srv.inShutdown
    \/ las.calls > 1
    \/ (las.calls = 1 /\ las.pc = "out")

\* C5 as stated: a server that was stopped, by Shutdown, by the scope or by a
\* listen failure that made ListenAndServe return, never accepts again.
C5_NeverRestarts == [][Stopped => ~srv'.listening]_vars

\* The server was stopped by a Shutdown call or by a scope watcher's Close.
StoppedForGood ==
    \/ sd.pc # "idle"
    \/ (scopeDone /\ watching < las.calls)

\* C5 as amended: the server accepts nothing before the first call, starts to
\* accept only in a ListenAndServe call whose listen succeeds, and never accepts
\* again once Shutdown was called or a scope watcher has closed it.
C5_NoRestartAfterClose ==
    /\ [](las.calls = 0 => ~srv.listening)
    /\ [][(srv'.listening /\ ~srv.listening) =>
             (las.pc = "started" /\ las'.pc = "serving")]_vars
    /\ [][StoppedForGood => ~srv'.listening]_vars

\* C5 witness: a second ListenAndServe call, made after the scope's watcher had
\* closed the server, has returned without accepting.
C5_Witness ==
    /\ scopeDone /\ watching = 0 /\ sd.pc = "idle"
    /\ las.calls = 2 /\ las.pc = "out" /\ las.err = "ErrServerClosed"
    /\ req[1].pc = "none"
    /\ ~srv.listening

DefCrt == DefaultPath \o ".crt"
DefKey == DefaultPath \o ".key"

\* A certificate and a key of the same key pair, both present.
ConsistentPair(d, certFile, keyFile) ==
    /\ Exists(d, certFile) /\ Exists(d, keyFile)
    /\ d[certFile].kind = "cert" /\ d[keyFile].kind = "key"
    /\ d[certFile].id = d[keyFile].id

\* The last call failed in the generator or in a write, not in the resolver.
EnvFailed(e) == e.err \in {"generate", "writeKey", "writeCert"}

\* The case C7 is about: TLS wanted, no file named, no default file present.
NothingThere(hh, d) ==
    /\ ~hh.Insecure /\ hh.CertFile = ""
    /\ ~Exists(d, DefCrt) /\ ~Exists(d, DefKey)

\* C7: with Insecure false, CertFile empty and neither default file present (and
\* the generator and the writes succeeding), EnsureCert returns nil and creates
\* exactly <defaultPath>.crt and <defaultPath>.key; any later call with the same
\* configuration, on the same or on a fresh instance, returns nil again and
\* leaves the disk as it is.
C7_FallbackIdempotent ==
    [][ecCalls' = ecCalls + 1 =>
         /\ (NothingThere(h, disk) /\ ~EnvFailed(ec')) =>
               /\ ec'.err = "nil"
               /\ Exists(disk', DefCrt) /\ Exists(disk', DefKey)
               /\ \A p \in Paths \ {DefCrt, DefKey} : disk'[p] = disk[p]
         /\ (NothingThere(ec.hBefore, ec.before) /\ ec.err = "nil") =>
               /\ ec'.err = "nil"
               /\ disk' = disk]_vars

\* C7 witness: a second call, on a fresh instance, after a call that generated
\* the default pair.
C7_Witness ==
    /\ ecCalls = 2
    /\ ec.err = "nil"
    /\ ec.hBefore.CertFile = "" /\ ~ec.hBefore.Insecure
    /\ ec.before[DefCrt] = File("cert", FreshId(0), "0600")
    /\ ec.before[DefKey] = File("key", FreshId(0), "0600")
    /\ disk = ec.before

\* C8: with Insecure false and CertFile empty, a corrupt file at
\* <defaultPath>.crt makes EnsureCert fail and is neither modified nor deleted,
\* whatever <defaultPath>.key is.
C8_CorruptCertKept ==
    (/\ ec.err # "none"
     /\ ~ec.hBefore.Insecure /\ ec.hBefore.CertFile = ""
     /\ ec.before[DefCrt].kind = "corrupt")
    => (ec.err # "nil" /\ disk[DefCrt] = ec.before[DefCrt])

\* C9: with CertFile set and Insecure false, EnsureCert writes nothing; it
\* returns nil exactly when (CertFile, KeyFile) is a consistent pair and the
\* load error otherwise.
C9_ExplicitReadOnly ==
    (ec.err # "none" /\ ~ec.hBefore.Insecure /\ ec.hBefore.CertFile # "")
    => /\ disk = ec.before
       /\ ec.writes = <<>>
       /\ (ec.err = "nil") <=>
             ConsistentPair(ec.before, ec.hBefore.CertFile, ec.hBefore.KeyFile)
       /\ ec.err \in {"nil", "ENOENT", "parse", "mismatch"}

\* C9 witness: a call with a user-named certificate whose key is missing.
C9_Witness ==
    /\ ec.err = "ENOENT"
    /\ ~ec.hBefore.Insecure /\ ec.hBefore.CertFile = UserCrt
    /\ Exists(ec.before, UserCrt) /\ ~Exists(ec.before, ec.hBefore.KeyFile)

\* C10: with Insecure true, EnsureCert returns nil and neither reads nor writes
\* a file, whatever CertFile, KeyFile and the disk are.
C10_InsecureNoop ==
    (ec.err # "none" /\ ec.hBefore.Insecure)
    => /\ ec.err = "nil"
       /\ ec.reads = {} /\ ec.writes = <<>>
       /\ disk = ec.before

\* C10 witness: an insecure call with a corrupt user-named certificate.
C10_Witness ==
    /\ ec.err = "nil" /\ ec.hBefore.Insecure
    /\ ec.hBefore.CertFile = UserCrt
    /\ ec.before[UserCrt].kind = "corrupt"

\* The files the last call created, truncated or wrote.
Written(e) == {e.writes[i].path : i \in {j \in DOMAIN e.writes : e.writes[j].how # "openfail"}}

\* C11: whenever EnsureCert returns nil with Insecure false, the files that
\* CertFile and KeyFile name when it returns are present and are the certificate
\* and the key of one key pair, whichever branch was taken.
C11_ResolvedPairConsistent ==
    [][(ecCalls' = ecCalls + 1 /\ ~h.Insecure /\ ec'.err = "nil") =>
          ConsistentPair(disk', h'.CertFile, h'.KeyFile)]_vars

\* C11 witness: a call that returned nil after generating the pair over a
\* corrupt certificate file.
C11_Witness ==
    /\ ec.err = "nil" /\ ~ec.hBefore.Insecure
    /\ ec.before[DefCrt].kind = "corrupt"
    /\ Written(ec) = {DefKey, DefCrt}
    /\ ConsistentPair(disk, h.CertFile, h.KeyFile)

\* C12 as stated: every call, failing or not, writes no file or exactly the
\* two default files, and writes only when Insecure is false, CertFile was
\* empty and a default file was missing.
C12_NoneOrBoth ==
    (ec.err # "none")
    => /\ Written(ec) \in {{}, {DefKey, DefCrt}}
       /\ (Written(ec) # {}) =>
             /\ ~ec.hBefore.Insecure /\ ec.hBefore.CertFile = ""
             /\ (~Exists(ec.before, DefCrt) \/ ~Exists(ec.before, DefKey))

\* C12 as amended: a call writes only the two default files and only when
\* Insecure is false, CertFile was empty and a default file was missing; the
\* certificate file is written only after the key file; a call that returns nil
\* wrote none or both; a file that was not written is as it was.
C12_WritesOnlyInGeneration ==
    (ec.err # "none")
    => /\ Written(ec) \subseteq {DefKey, DefCrt}
       /\ (DefCrt \in Written(ec)) => (DefKey \in Written(ec))
       /\ (ec.err = "nil") => Written(ec) \in {{}, {DefKey, DefCrt}}
       /\ (Written(ec) # {}) =>
             /\ ~ec.hBefore.Insecure /\ ec.hBefore.CertFile = ""
             /\ (~Exists(ec.before, DefCrt) \/ ~Exists(ec.before, DefKey))
       /\ \A p \in Paths \ Written(ec) : disk[p] = ec.before[p]

\* C12 witness: a call that failed on the certificate file after it had written
\* the key file.
C12_Witness ==
    /\ ec.err = "writeCert"
    /\ Written(ec) = {DefKey}
    /\ disk[DefKey].kind = "key"

\* C14: after a call that generated the pair and returned nil, both default
\* files are readable and writable by their owner only, whatever was at those
\* paths before.
C14_OwnerOnly ==
    (ec.err = "nil" /\ Written(ec) # {})
    => (disk[DefKey].mode = "0600" /\ disk[DefCrt].mode = "0600")

\* C18: a call that writes a default file found neither default file present.
C18_NeverOverwrites ==
    (ec.err # "none" /\ Written(ec) # {})
    => (~Exists(ec.before, DefCrt) /\ ~Exists(ec.before, DefKey))

(***************************************************************************)
(* More claims about the server.                                           *)
(***************************************************************************)

\* C15: once a request's handler has returned, normally or by panic, its
\* watcher ends, also when neither the scope nor the request's own context is
\* ever cancelled.
C15_WatcherEndsWithRequest ==
    \A r \in Reqs : (req[r].pc = "returned") ~> (req[r].watcher = "exited")

\* C15 witness: a request has returned and its watcher has ended, with the scope
\* and the request's own context not cancelled.
C15_Witness ==
    /\ ~scopeDone
    /\ req[1].pc = "returned" /\ ~req[1].native
    /\ req[1].watcher = "exited"

\* TLS is wanted and the files CertFile and KeyFile name are no loadable pair.
NoMaterial == ~h.Insecure /\ ~ConsistentPair(disk, h.CertFile, h.KeyFile)

\* With Insecure false, nothing is accepted or served without a loadable pair.
ServesOnlyWithMaterial ==
    NoMaterial => (~srv.listening /\ las.pc # "serving"
                     /\ \A r \in Reqs : req[r].pc = "none")

\* C16 as stated: with Insecure false nothing is served unless CertFile and
\* KeyFile name a loadable pair, and a ListenAndServe call made without one
\* returns a non-nil error when the scope is not cancelled.
C16_NoServeWithoutCert ==
    /\ ServesOnlyWithMaterial
    /\ (NoMaterial /\ las.pc = "out" /\ las.calls > 0 /\ ~scopeDone)
          => las.ret # "nil"

\* C16 as amended: the same, for a call made when no Shutdown call has shut the
\* server down either.
C16_NoServeWithoutCertUnlessShutDown ==
    /\ ServesOnlyWithMaterial
    /\ (NoMaterial /\ las.pc = "out" /\ las.calls > 0 /\ ~scopeDone
          /\ sd.pc = "idle")
          => las.ret # "nil"

\* C16 witness: ListenAndServe, called in TLS mode with CertFile never resolved
\* and the address free to bind, has returned the load error.
C16_Witness ==
    /\ ~h.Insecure /\ h.CertFile = ""
    /\ las.pc = "out" /\ las.err = "cert" /\ las.ret # "nil"
    /\ ~scopeDone /\ sd.pc = "idle"

\* C17: a request's derived context is cancelled only if the scope is cancelled,
\* or the request's own context is, or its handler has returned; a Shutdown call
\* cancels none.
C17_DerivedCancelCauses ==
    \A r \in Reqs :
        req[r].derived => (scopeDone \/ req[r].native \/ req[r].pc = "returned")

\* C17 witness: Shutdown has given up on a request that is still served, and
\* the request's derived context is not cancelled.
C17_Witness ==
    /\ sd.pc = "returned" /\ sd.ret # "nil"
    /\ ~scopeDone
    /\ req[1].pc = "serving" /\ ~req[1].derived /\ ~req[1].native

\* C19: once ListenAndServe has returned, its scope watcher ends, also when the
\* scope is never cancelled: no watcher is left but that of a call now running;
\* and no watcher closes the server after the call has returned.
C19_ScopeWatcherEndsWithCall ==
    /\ (las.pc = "out" /\ las.calls > 0)
          ~> (watching = 0 \/ (las.pc # "out" /\ watching <= 1))
    /\ [][(watching' < watching) => las.pc # "out"]_vars

(***************************************************************************)
(* A claim about the configuration, checked under SpecLifecycle.           *)
(***************************************************************************)

\* C13 as stated: no call of EnsureCert, ListenAndServe, Shutdown or
\* ShutdownWithTimeout changes Listen, KeyFile, CertFile, Hostname or Insecure.
C13_ConfigImmutable == [][h' = h]_vars

\* C13 as amended: no call changes Listen, Hostname or Insecure; CertFile and
\* KeyFile are changed only by an EnsureCert call made with Insecure false and
\* CertFile empty, which sets them to <defaultPath>.crt and <defaultPath>.key.
C13_OnlyEnsureCertResolves ==
    [][/\ h'.Listen = h.Listen
       /\ h'.Hostname = h.Hostname
       /\ h'.Insecure = h.Insecure
       /\ (h' # h) =>
            /\ ecCalls' = ecCalls + 1
            /\ ~h.Insecure /\ h.CertFile = ""
            /\ h'.CertFile = DefCrt /\ h'.KeyFile = DefKey]_vars

\* C13 witness: a failed EnsureCert call has changed CertFile; ListenAndServe
\* and Shutdown were called since.
C13_Witness ==
    /\ h # cfg /\ h.CertFile = DefCrt
    /\ ec.err \notin {"nil", "none"}
    /\ las.calls > 0 /\ las.pc = "out"
    /\ sd.pc = "returned"
====
